---- MODULE Spec2Model ----
(***************************************************************************)
(* State-machine model of the two Streamlit applications of the            *)
(* repository:                                                             *)
(*   src/salaryapp.py  the salary dashboard (advanced variant)             *)
(*   src/app.py        the demo page with the civic feed client            *)
(*                                                                         *)
(* Streamlit re-executes the whole script on every widget interaction, so  *)
(* every action of the salary dashboard below is "change one widget, then  *)
(* run the script top to bottom" (operator Script).                        *)
(*                                                                         *)
(* Numbers.  A pandas float64 cell is modelled as a record                 *)
(* [nan, val]: nan says the cell is NaN (an empty CSV field), val is the   *)
(* amount as a fixed-point integer, in thousandths of a dollar for money   *)
(* columns (Scale) and in whole hours for typical_hours.  Arithmetic is    *)
(* exact; binary floating-point representation error is not modelled.      *)
(* A missing text cell is the string NA.                                   *)
(***************************************************************************)
EXTENDS Integers, Sequences, FiniteSets, TLC

VARIABLES
    \* ---- src/salaryapp.py ----
    file,              \* rows of the payroll CSV on disk (positional 8-tuples)
    cache,             \* st.cache_data entry of get_data: [hit, value]
    reads,             \* how many times get_data's body ran (pd.read_csv)
    first_load,        \* the table the first run of get_data's body returned
    data,              \* module-level `data` of the last script run
    select_all_depts,  \* checkbox "Select All Departments"
    dept_multiselect,  \* widget state of the department multiselect
    discarded,         \* multiselect value the last run with a checked box dropped
    employment_type,   \* multiselect "Employment Type:"
    bin_width_key,     \* selectbox "Salary Range Width:"
    min_salary,        \* slider "Annual Pay Range ($):", lower handle
    max_salary,        \* slider, upper handle
    top_n_selector,    \* number_input of the top earners section
    departments,       \* the predicate's department list
    filtered_data,     \* row labels (indices into data) of the filtered frame
    dept_df,           \* department aggregates, sorted by employee_count
    min_value,         \* histogram: lower end of the first bin
    max_value,         \* histogram: upper end of the last bin
    num_bins,
    bin_edges,
    top_n,             \* rows of the top earners table: [row, rank]
    error,             \* exception that ended the last script run, or "none"
    stale,             \* the last run's table differs from the CSV then on disk
    \* ---- src/app.py ----
    response,          \* last HTTP response of requests.get: [status_code, body]
    fetched,           \* table fetch_data returned
    st_error,          \* messages rendered with st.error, in order
    escaped            \* whether an exception left fetch_data

sal_vars == <<file, cache, reads, first_load, data, select_all_depts,
              dept_multiselect, discarded, employment_type, bin_width_key, min_salary,
              max_salary, top_n_selector, departments, filtered_data, dept_df,
              min_value, max_value, num_bins, bin_edges, top_n, error, stale>>
app_vars == <<response, fetched, st_error, escaped>>
vars == <<sal_vars, app_vars>>

----------------------------------------------------------------------------
(* Generic helpers                                                         *)

Range(s) == {s[i] : i \in DOMAIN s}

SetMax(S) == CHOOSE m \in S : \A y \in S : y <= m

SetMin(S) == CHOOSE m \in S : \A y \in S : m <= y

RECURSIVE SeqSum(_)
SeqSum(s) == IF s = <<>> THEN 0 ELSE Head(s) + SeqSum(Tail(s))

Indices(s) == [i \in 1..Len(s) |-> i]

----------------------------------------------------------------------------
(* float64 cells                                                           *)

Scale == 1000

NA == "<NA>"

NaN == [nan |-> TRUE, val |-> 0]

Num(v) == [nan |-> FALSE, val |-> v]

\* a * b on float64: NaN if either operand is NaN
FMul(a, b) == IF a.nan \/ b.nan THEN NaN ELSE Num(a.val * b.val)

\* Python int(x) of a money amount: truncation toward zero, in dollars
IntTrunc(v) == IF v >= 0 THEN v \div Scale ELSE -((-v) \div Scale)

\* numpy/pandas round: to the nearest integer multiple, ties to even.
\* RoundHalfEven(n, d) is n/d rounded to an integer (d > 0).
RoundHalfEven(n, d) ==
    LET q == n \div d
        r == n % d
    IN  IF 2 * r < d THEN q
        ELSE IF 2 * r > d THEN q + 1
        ELSE IF q % 2 = 0 THEN q ELSE q + 1

\* DataFrame.round(2) of the amount n/d thousandths: a whole number of cents
Round2(n, d) == (Scale \div 100) * RoundHalfEven(n, d * (Scale \div 100))

\* Series.round(1) of count / total * 100, in tenths of a percent
Round1Pct(count, total) == RoundHalfEven(count * 100 * 10, total)

----------------------------------------------------------------------------
(* Payroll data loader: get_data, salaryapp.py 26-36                       *)

WeeksPerYear == 50

\* df.columns = [...]: the 8 CSV columns renamed positionally
columns(row) ==
    [name |-> row[1], job_title |-> row[2], department |-> row[3],
     full_part_time |-> row[4], salary_hourly |-> row[5],
     typical_hours |-> row[6], annual_salary |-> row[7],
     hourly_rate |-> row[8]]

\* annual_pay with 52 paid weeks instead of 50
annual_pay_52_weeks(r) ==
    IF r.salary_hourly = "SALARY" THEN r.annual_salary
    ELSE IF r.salary_hourly = "HOURLY"
         THEN FMul(FMul(r.hourly_rate, r.typical_hours), Num(52))
         ELSE Num(0)

\* np.where(salary_hourly == 'SALARY', annual_salary,
\*          np.where(salary_hourly == 'HOURLY', hourly_rate*typical_hours*50, 0))
annual_pay(r) ==
    IF r.salary_hourly = "SALARY" THEN r.annual_salary
    ELSE IF r.salary_hourly = "HOURLY"
         THEN FMul(FMul(r.hourly_rate, r.typical_hours), Num(WeeksPerYear))
         ELSE Num(0)

with_annual_pay(r) ==
    [name |-> r.name, job_title |-> r.job_title, department |-> r.department,
     full_part_time |-> r.full_part_time, salary_hourly |-> r.salary_hourly,
     typical_hours |-> r.typical_hours, annual_salary |-> r.annual_salary,
     hourly_rate |-> r.hourly_rate, annual_pay |-> annual_pay(r)]

\* the body of get_data: read the CSV, rename, derive annual_pay
load_table(f) == [i \in 1..Len(f) |-> with_annual_pay(columns(f[i]))]

\* get_data without the @st.cache_data decorator
get_data_uncached(c, f) == [value |-> load_table(f), read |-> TRUE]

\* @st.cache_data: the body runs only when the cache holds no entry
get_data(c, f) ==
    IF c.hit THEN [value |-> c.value, read |-> FALSE]
    ELSE [value |-> load_table(f), read |-> TRUE]

----------------------------------------------------------------------------
(* Sidebar: filter controls, salaryapp.py 45-85                            *)

\* Every text value of the model in Python's string order (ASCII):
\* sorted() of a set of strings is the subsequence of StrOrder it selects.
StrOrder == <<"A", "B", "C", "F", "P", "nan">>

sorted(S) == LET In(s) == s \in S IN SelectSeq(StrOrder, In)

\* Series.astype(str): a missing cell becomes the text 'nan'
astype_str(x) == IF x = NA THEN "nan" ELSE x

\* sorted(data['department'].unique())
all_departments(tbl) == sorted({tbl[i].department : i \in DOMAIN tbl})

\* options of the employment-type multiselect:
\* sorted(data['full_part_time'].astype(str).unique())
employment_options(tbl) ==
    sorted({astype_str(tbl[i].full_part_time) : i \in DOMAIN tbl})

\* default of the employment-type multiselect: every observed code, as text
employment_default(tbl) ==
    {astype_str(tbl[i].full_part_time) : i \in DOMAIN tbl}

\* the department list of the predicate, lines 50-58
departments_of(tbl, checked, multiselect) ==
    IF checked THEN all_departments(tbl) ELSE multiselect

\* the multiselect keeping its last value while it is hidden
multiselect_kept(tbl, previous) == previous

\* State of the department multiselect after a run with the checkbox
\* checked: the multiselect is not rendered in that run, Streamlit discards
\* the state of a widget a run did not render, and the next time it is
\* rendered it starts from default=sorted(unique departments), line 57.
multiselect_hidden(tbl, previous) == all_departments(tbl)

bin_width_keys == <<"1K", "5K", "10K", "20K">>

bin_width_options ==
    [k \in Range(bin_width_keys) |->
        CASE k = "1K" -> 1000
          [] k = "5K" -> 5000
          [] k = "10K" -> 10000
          [] k = "20K" -> 20000]

\* selectbox(..., index=2)
bin_width_default == bin_width_keys[2 + 1]

\* the non-NaN values of the annual_pay column (Series.min/max skip NaN)
pay_values(tbl) ==
    {tbl[i].annual_pay.val : i \in {j \in DOMAIN tbl : ~tbl[j].annual_pay.nan}}

\* int(data['annual_pay'].min()); int(NaN) raises ValueError when there is
\* no value (slider_ok is FALSE then)
slider_ok(tbl) == pay_values(tbl) # {}

slider_min(tbl) == IntTrunc(SetMin(pay_values(tbl)))

\* int(data['annual_pay'].max())
slider_max(tbl) == IntTrunc(SetMax(pay_values(tbl)))

----------------------------------------------------------------------------
(* Filtering and aggregation, salaryapp.py 87-109                          *)

\* between(lo, hi, inclusive='left'): the upper end excluded
between_left(x, lo, hi) == ~x.nan /\ lo * Scale <= x.val /\ x.val < hi * Scale

\* Series.between(lo, hi): inclusive on both ends, False for NaN
between(x, lo, hi) == ~x.nan /\ lo * Scale <= x.val /\ x.val <= hi * Scale

\* Series.isin(values)
isin(x, values) == x \in values

\* data[ dept.isin(departments) & fpt.isin(employment_type) & pay.between ]
filter(tbl, depts, types, lo, hi) ==
    LET keep(i) == /\ isin(tbl[i].department, Range(depts))
                   /\ isin(tbl[i].full_part_time, types)
                   /\ between(tbl[i].annual_pay, lo, hi)
    IN  SelectSeq(Indices(tbl), keep)

\* the annual_pay values (thousandths) of the rows of F in department d
group_pays(tbl, F, d) ==
    LET In(i) == tbl[i].department = d
        Pay(rows) == [k \in 1..Len(rows) |-> tbl[rows[k]].annual_pay.val]
    IN  Pay(SelectSeq(F, In))

\* count, mean, min, max of one group, .round(2), and the percentage of total
agg_row(d, pays, total) ==
    [department |-> d,
     employee_count |-> Len(pays),
     avg_salary |-> Round2(SeqSum(pays), Len(pays)),
     min_salary |-> Round2(SetMin(Range(pays)), 1),
     max_salary |-> Round2(SetMax(Range(pays)), 1),
     percentage |-> Round1Pct(Len(pays), total)]

\* dept_row with the percentage taken of len(data) instead of
\* len(filtered_data)
dept_row_of_table(tbl, F, d) == agg_row(d, group_pays(tbl, F, d), Len(tbl))

\* one row of filtered_data.groupby('department').agg(count, mean, min, max)
\* .round(2), with the percentage column of line 106
dept_row(tbl, F, d) == agg_row(d, group_pays(tbl, F, d), Len(F))

\* aggregate row h put into the ascending sequence rest, before the rows
\* whose employee_count is not smaller
insert_by_count(h, rest) ==
    LET Less(r) == r.employee_count < h.employee_count
        NotLess(r) == ~Less(r)
    IN  SelectSeq(rest, Less) \o <<h>> \o SelectSeq(rest, NotLess)

\* DataFrame.sort_values('employee_count', ascending=True) as a stable
\* insertion sort
RECURSIVE sort_by_count(_)
sort_by_count(rows) ==
    IF rows = <<>> THEN <<>>
    ELSE insert_by_count(Head(rows), sort_by_count(Tail(rows)))

\* the aggregate rows in the order of the group keys
group_rows(tbl, F, keys) == [g \in 1..Len(keys) |-> dept_row(tbl, F, keys[g])]

\* dept_df: groupby sorts the group keys; then sort by employee_count
department_stats(tbl, F) ==
    sort_by_count(group_rows(tbl, F, sorted({tbl[F[k]].department : k \in DOMAIN F})))

----------------------------------------------------------------------------
(* Histogram bins, salaryapp.py 130-140                                    *)

\* np.floor(x / w) and np.ceil(x / w) for x in thousandths, w in dollars
floor_div(x, w) == x \div (w * Scale)

\* np.floor used for the upper end as well
ceil_div_as_floor(x, w) == x \div (w * Scale)

ceil_div(x, w) == -((-x) \div (w * Scale))

filtered_pays(tbl, F) == {tbl[F[k]].annual_pay.val : k \in DOMAIN F}

\* min_value = bin_width * np.floor(filtered_data['annual_pay'].min() / bin_width)
min_value_of(tbl, F, w) == w * floor_div(SetMin(filtered_pays(tbl, F)), w)

\* max_value = bin_width * np.ceil(filtered_data['annual_pay'].max() / bin_width)
max_value_of(tbl, F, w) == w * ceil_div(SetMax(filtered_pays(tbl, F)), w)

\* num_bins = int((max_value - min_value) / bin_width)
num_bins_of(lo, hi, w) == (hi - lo) \div w

\* np.linspace(start, stop, num): num points, both ends included;
\* a single point (num = 1) is start
linspace(start, stop, num) ==
    LET div == num - 1
    IN  IF div > 0
        THEN [i \in 1..num |->
                 IF i = num THEN stop ELSE start + (i - 1) * ((stop - start) \div div)]
        ELSE <<start>>

----------------------------------------------------------------------------
(* Top earners, salaryapp.py 240-249                                       *)

TopNMin == 1

TopNMax == 100

TopNDefault == 10

\* the sequence s without its k-th element
Without(s, k) == SubSeq(s, 1, k - 1) \o SubSeq(s, k + 1, Len(s))

\* DataFrame.head(n): the first n rows, whatever their pay
nlargest_head(tbl, F, n) == SubSeq(F, 1, IF n < Len(F) THEN n ELSE Len(F))

\* DataFrame.nlargest(n, 'annual_pay') (keep='first'): the n largest rows in
\* descending order, the earliest row first among equal values
RECURSIVE nlargest(_, _, _)
nlargest(tbl, F, n) ==
    IF n = 0 \/ F = <<>> THEN <<>>
    ELSE LET m == SetMax(filtered_pays(tbl, F))
             k == SetMin({j \in DOMAIN F : tbl[F[j]].annual_pay.val = m})
         IN  <<F[k]>> \o nlargest(tbl, Without(F, k), n - 1)

\* row x put into the descending sequence rest, before the rows that are
\* not paid more
insert_desc(tbl, x, rest) ==
    LET Greater(i) == tbl[i].annual_pay.val > tbl[x].annual_pay.val
        NotGreater(i) == ~Greater(i)
    IN  SelectSeq(rest, Greater) \o <<x>> \o SelectSeq(rest, NotGreater)

\* .sort_values('annual_pay', ascending=False) as a stable insertion sort
RECURSIVE sort_desc(_, _)
sort_desc(tbl, rows) ==
    IF rows = <<>> THEN <<>>
    ELSE insert_desc(tbl, Head(rows), sort_desc(tbl, Tail(rows)))

\* top_n['rank'] = range(1, len(top_n) + 1)
with_rank(rows) == [k \in 1..Len(rows) |-> [row |-> rows[k], rank |-> k]]

\* top_n: nlargest, sorted descending, with the rank column
top_earners(tbl, F, n) == with_rank(sort_desc(tbl, nlargest(tbl, F, n)))

----------------------------------------------------------------------------
(* One run of salaryapp.py, top to bottom                                  *)

\* The widget values a new session starts from (the value=/default=/index=
\* arguments of the widget calls).
DefaultWidgets(tbl) ==
    [checked |-> TRUE,
     multiselect |-> all_departments(tbl),
     types |-> employment_default(tbl),
     bkey |-> bin_width_default,
     lo |-> IF slider_ok(tbl) THEN slider_min(tbl) ELSE 0,
     hi |-> IF slider_ok(tbl) THEN slider_max(tbl) ELSE 0,
     n |-> TopNDefault]

\* What the script computes from the loaded table and the widget values w.
\* error names the exception that ends the run: int(NaN) raises ValueError
\* at line 82 when annual_pay holds no number, and at line 133 when
\* filtered_data is empty (min() and max() of an empty column are NaN).
\* Values the run did not reach are left empty.
RunFiltered(tbl, w, deps, F, bw) ==
    LET blank == [departments |-> deps, filtered_data |-> <<>>, dept_df |-> <<>>,
                  min_value |-> 0, max_value |-> 0, num_bins |-> 0,
                  bin_edges |-> <<>>, top_n |-> <<>>, error |-> "ValueError"]
    IN  IF ~slider_ok(tbl) THEN blank
        ELSE IF F = <<>>
        THEN [blank EXCEPT !.dept_df = department_stats(tbl, F)]
        ELSE LET lo == min_value_of(tbl, F, bw)
                 hi == max_value_of(tbl, F, bw)
             IN  [departments |-> deps,
                  filtered_data |-> F,
                  dept_df |-> department_stats(tbl, F),
                  min_value |-> lo,
                  max_value |-> hi,
                  num_bins |-> num_bins_of(lo, hi, bw),
                  bin_edges |-> linspace(lo, hi, num_bins_of(lo, hi, bw) + 1),
                  top_n |-> top_earners(tbl, F, w.n),
                  error |-> "none"]

Run(tbl, w) ==
    LET deps == departments_of(tbl, w.checked, w.multiselect)
    IN  RunFiltered(tbl, w, deps, filter(tbl, deps, w.types, w.lo, w.hi),
                    bin_width_options[w.bkey])

\* the table this run's get_data() call returns
CurTable == get_data(cache, file).value

\* the widget state of the session
Widgets ==
    [checked |-> select_all_depts, multiselect |-> dept_multiselect,
     types |-> employment_type, bkey |-> bin_width_key,
     lo |-> min_salary, hi |-> max_salary, n |-> top_n_selector]

\* The script run with widget values w.  A widget the run does not render
\* (the multiselect under a checked box, the number_input after an
\* exception) starts from its default when it is rendered again.
Script(w) ==
    \E g \in {get_data(cache, file)} : \E tbl \in {g.value} : \E out \in {Run(tbl, w)} :
        /\ cache' = [hit |-> TRUE, value |-> tbl]
        /\ reads' = reads + (IF g.read THEN 1 ELSE 0)
        /\ first_load' = IF g.read /\ reads = 0 THEN tbl ELSE first_load
        /\ data' = tbl
        /\ select_all_depts' = w.checked
        /\ dept_multiselect' = IF w.checked
                               THEN multiselect_hidden(tbl, w.multiselect)
                               ELSE w.multiselect
        /\ discarded' = IF w.checked THEN w.multiselect ELSE discarded
        /\ employment_type' = w.types
        /\ bin_width_key' = w.bkey
        /\ min_salary' = w.lo
        /\ max_salary' = w.hi
        /\ top_n_selector' = IF out.error = "none" THEN w.n ELSE TopNDefault
        /\ departments' = out.departments
        /\ filtered_data' = out.filtered_data
        /\ dept_df' = out.dept_df
        /\ min_value' = out.min_value
        /\ max_value' = out.max_value
        /\ num_bins' = out.num_bins
        /\ bin_edges' = out.bin_edges
        /\ top_n' = out.top_n
        /\ error' = out.error
        /\ stale' = (tbl # load_table(file))
        /\ UNCHANGED <<file, app_vars>>

----------------------------------------------------------------------------
(* Actions of the salary dashboard                                         *)

\* a browser opens (or reloads) the page: a new session with default widgets
OpenPage == \E w \in {DefaultWidgets(CurTable)} : Script(w)

\* the user clicks "Select All Departments"
ToggleSelectAll ==
    /\ cache.hit
    /\ Script([Widgets EXCEPT !.checked = ~select_all_depts])

\* the user edits the department multiselect (shown when the box is unchecked)
SetDepartments ==
    /\ cache.hit
    /\ ~select_all_depts
    /\ \E S \in SUBSET Range(all_departments(data)) :
          /\ sorted(S) # dept_multiselect
          /\ Script([Widgets EXCEPT !.multiselect = sorted(S)])

\* the user edits the employment-type multiselect
SetEmploymentType ==
    /\ cache.hit
    /\ \E S \in SUBSET Range(employment_options(data)) :
          /\ S # employment_type
          /\ Script([Widgets EXCEPT !.types = S])

\* the user picks a histogram bin width
SetBinWidth ==
    /\ cache.hit
    /\ \E k \in Range(bin_width_keys) :
          /\ k # bin_width_key
          /\ Script([Widgets EXCEPT !.bkey = k])

\* Slider positions the model tries: the whole dollars of each observed pay
\* (all of them within the slider's bounds).
SliderStops(tbl) ==
    {x \in {IntTrunc(v) : v \in pay_values(tbl)} :
        slider_min(tbl) <= x /\ x <= slider_max(tbl)}

\* the user drags the handles of the annual-pay slider
SetSlider ==
    /\ cache.hit
    /\ slider_ok(data)
    /\ \E lo \in SliderStops(data), hi \in SliderStops(data) :
          /\ lo <= hi
          /\ <<lo, hi>> # <<min_salary, max_salary>>
          /\ Script([Widgets EXCEPT !.lo = lo, !.hi = hi])

\* Values of the number_input the model tries, within its min_value/max_value.
TopNChoices == {n \in {1, 3, 10, 100} : TopNMin <= n /\ n <= TopNMax}

\* the user edits the number of top earners (rendered only by a run that
\* reached line 242)
SetTopN ==
    /\ cache.hit
    /\ error = "none"
    /\ \E n \in TopNChoices :
          /\ n # top_n_selector
          /\ Script([Widgets EXCEPT !.n = n])

\* the CSV on disk is replaced while the process runs; nothing is re-run
FileChange(files) ==
    /\ \E f \in files : f # file /\ file' = f
    /\ UNCHANGED <<cache, reads, first_load, data, select_all_depts,
                   dept_multiselect, discarded, employment_type, bin_width_key,
                   min_salary, max_salary, top_n_selector, departments,
                   filtered_data, dept_df, min_value, max_value, num_bins,
                   bin_edges, top_n, error, stale, app_vars>>

\* the process has started, no page has been opened yet
InitApp ==
    /\ response = [status_code |-> 0, body |-> [is_json |-> FALSE, value |-> <<>>]]
    /\ fetched = <<>>
    /\ st_error = <<>>
    /\ escaped = FALSE

InitSalary(files) ==
    /\ file \in files
    /\ cache = [hit |-> FALSE, value |-> <<>>]
    /\ reads = 0
    /\ first_load = <<>>
    /\ data = <<>>
    /\ select_all_depts = TRUE
    /\ dept_multiselect = <<>>
    /\ discarded = <<>>
    /\ employment_type = {}
    /\ bin_width_key = bin_width_default
    /\ min_salary = 0
    /\ max_salary = 0
    /\ top_n_selector = TopNDefault
    /\ departments = <<>>
    /\ filtered_data = <<>>
    /\ dept_df = <<>>
    /\ min_value = 0
    /\ max_value = 0
    /\ num_bins = 0
    /\ bin_edges = <<>>
    /\ top_n = <<>>
    /\ error = "none"
    /\ stale = FALSE
    /\ InitApp

\* a CSV row
Row(dept, fpt, basis, hours, salary, rate) ==
    <<"N", "T", dept, fpt, basis, hours, salary, rate>>

\* CSV files of 1..n rows drawn from R
Files(R, n) == UNION {[1..k -> R] : k \in 1..n}

----------------------------------------------------------------------------
(* Civic feed client: fetch_data, app.py 10-23                             *)

\* the decimal digits of n >= 0, as f"{n}" writes them
RECURSIVE digits(_)
digits(n) ==
    LET d == <<"0", "1", "2", "3", "4", "5", "6", "7", "8", "9">>[(n % 10) + 1]
    IN  IF n < 10 THEN <<d>> ELSE digits(n \div 10) \o <<d>>

\* f"Failed to fetch data: {response.status_code}", as the literal part
\* followed by the characters the format field writes
error_message(status_code) == <<"Failed to fetch data: ">> \o digits(status_code)

\* a response body: JSON (a list of objects) or some other text
Json(rows) == [is_json |-> TRUE, value |-> rows]

NotJson == [is_json |-> FALSE, value |-> <<>>]

\* pd.DataFrame(list of JSON objects): one row per element, one column per
\* observed key, "NaN" where an object lacks the key
DataFrame(json) ==
    LET cols == UNION {DOMAIN json[i] : i \in DOMAIN json}
    IN  [i \in 1..Len(json) |->
            [c \in cols |-> IF c \in DOMAIN json[i] THEN json[i][c] ELSE "NaN"]]

\* fetch_data testing response.ok (any 2xx) instead of status_code == 200
fetch_data_any_2xx(resp) ==
    IF resp.status_code >= 200 /\ resp.status_code < 300
    THEN IF ~resp.body.is_json
         THEN [table |-> <<>>, errors |-> <<>>, raised |-> TRUE]
         ELSE [table |-> DataFrame(resp.body.value), errors |-> <<>>,
               raised |-> FALSE]
    ELSE [table |-> <<>>, errors |-> <<error_message(resp.status_code)>>,
          raised |-> FALSE]

\* fetch_data(api_url, api_key) given the response of requests.get:
\* what it returns, what it renders with st.error, whether it raises
\* (response.json() raises on a body that is not JSON)
fetch_data(resp) ==
    IF resp.status_code = 200
    THEN IF ~resp.body.is_json
         THEN [table |-> <<>>, errors |-> <<>>, raised |-> TRUE]
         ELSE [table |-> DataFrame(resp.body.value), errors |-> <<>>,
               raised |-> FALSE]
    ELSE [table |-> <<>>, errors |-> <<error_message(resp.status_code)>>,
          raised |-> FALSE]

\* HTTP status codes the model lets the feed answer with
HttpStatuses == {200, 201, 204, 301, 304, 400, 401, 403, 404, 429, 500, 503}

\* JSON objects of the feed
FeedObjects == {[id |-> "1"], [id |-> "2"], [id |-> "3", kind |-> "x"]}

MaxFeedRows == 2

FeedBodies ==
    {NotJson} \cup {Json(rows) : rows \in UNION {[1..k -> FeedObjects] : k \in 0..MaxFeedRows}}

\* one run of app.py: line 23 calls fetch_data and the feed answers
RunApp ==
    /\ \E sc \in HttpStatuses, b \in FeedBodies :
          LET resp == [status_code |-> sc, body |-> b]
              r == fetch_data(resp)
          IN  /\ response' = resp
              /\ fetched' = r.table
              /\ st_error' = r.errors
              /\ escaped' = r.raised
    /\ UNCHANGED sal_vars

\* one run of app.py in which requests.get raises (no HTTP response)
RunAppNoResponse ==
    /\ response' = [status_code |-> 0, body |-> NotJson]
    /\ fetched' = <<>>
    /\ st_error' = <<>>
    /\ escaped' = TRUE
    /\ UNCHANGED sal_vars

----------------------------------------------------------------------------
(* Specifications                                                          *)

\* ---- payroll loader: any cell may be missing ----
LoadRows ==
    {Row("A", "F", b, h, s, r) :
        b \in {"SALARY", "HOURLY", "DAILY", "salary"},
        h \in {NaN, Num(35)},
        s \in {NaN, Num(50000500)},
        r \in {NaN, Num(15250)}}

MaxLoadRows == 2

LoadFiles == Files(LoadRows, MaxLoadRows)

InitLoad == InitSalary(LoadFiles)

NextLoad == OpenPage \/ ToggleSelectAll

SpecLoad == InitLoad /\ [][NextLoad]_vars

\* ---- cache of the loader across runs and file changes ----
CacheRows ==
    {Row("A", "F", "SALARY", NaN, Num(50000000), NaN),
     Row("B", "P", "HOURLY", Num(35), NaN, Num(15250)),
     Row("B", "F", "DAILY", NaN, NaN, NaN)}

MaxCacheRows == 2

CacheFiles == Files(CacheRows, MaxCacheRows)

InitCache == InitSalary(CacheFiles)

NextCache == OpenPage \/ ToggleSelectAll \/ SetBinWidth \/ FileChange(CacheFiles)

SpecCache == InitCache /\ [][NextCache]_vars

\* ---- civic feed client ----
InitFetch == InitSalary({<<Row("A", "F", "SALARY", NaN, Num(50000000), NaN)>>})

NextFetch == RunApp \/ RunAppNoResponse

SpecFetch == InitFetch /\ [][NextFetch]_vars

\* ---- filter controls and the filter ----
FilterRows ==
    {Row("A", "F", "SALARY", NaN, Num(50000000), NaN),
     Row("B", "P", "HOURLY", Num(35), NaN, Num(15250)),
     Row("A", "P", "SALARY", NaN, Num(90000500), NaN),
     Row("B", "F", "DAILY", NaN, NaN, NaN),
     Row("B", NA, "SALARY", NaN, Num(60000000), NaN)}

MaxFilterRows == 2

FilterFiles == Files(FilterRows, MaxFilterRows)

InitFilter == InitSalary(FilterFiles)

NextFilter ==
    OpenPage \/ ToggleSelectAll \/ SetDepartments \/ SetEmploymentType \/ SetSlider

SpecFilter == InitFilter /\ [][NextFilter]_vars

\* ---- department aggregates ----
AggRows ==
    {Row("A", "F", "SALARY", NaN, Num(s), NaN) : s \in {10000, 20000, 30000, 10005}}
    \cup {Row("B", "F", "SALARY", NaN, Num(s), NaN) : s \in {100000}}

MaxAggRows == 4

AggFiles == Files(AggRows, MaxAggRows)

InitAgg == InitSalary(AggFiles)

NextAgg == OpenPage \/ ToggleSelectAll \/ SetDepartments

SpecAgg == InitAgg /\ [][NextAgg]_vars

\* ---- top earners ----
TopRows ==
    {Row("A", "F", "SALARY", NaN, Num(s * Scale), NaN) : s \in {5, 50, 500, 5000, 50000}}

MaxTopRows == 5

TopFiles == Files(TopRows, MaxTopRows)

InitTop == InitSalary(TopFiles)

NextTop == OpenPage \/ SetTopN

SpecTop == InitTop /\ [][NextTop]_vars

\* ---- histogram bins ----
BinRows ==
    {Row("A", "F", "SALARY", NaN, Num(s), NaN) :
        s \in {23456000, 187654000, 20000000, 999500, 0}}

MaxBinRows == 2

BinFiles == Files(BinRows, MaxBinRows)

InitBins == InitSalary(BinFiles)

NextBins == OpenPage \/ SetBinWidth \/ SetSlider

SpecBins == InitBins /\ [][NextBins]_vars

----------------------------------------------------------------------------
(* Properties                                                              *)

\* the pay the derivation rule of the data model gives a CSV row
RulePay(row) ==
    LET basis == row[5]
        hours == row[6]
        salary == row[7]
        rate == row[8]
    IN  IF basis = "SALARY" THEN salary
        ELSE IF basis = "HOURLY"
             THEN IF rate.nan \/ hours.nan THEN NaN
                  ELSE Num(rate.val * hours.val * 50)
             ELSE Num(0)

\* C1: every record get_data() returns carries its CSV row's pay basis and
\* an annual_pay equal to annual_salary for "SALARY", to
\* hourly_rate * typical_hours * 50 for "HOURLY", and to 0 for any other
\* pay basis.
C1_AnnualPayDerivation ==
    cache.hit =>
        /\ Len(data) = Len(file)
        /\ \A i \in DOMAIN data :
              /\ data[i].salary_hourly = file[i][5]
              /\ data[i].annual_salary = file[i][7]
              /\ data[i].annual_pay = RulePay(file[i])

\* a loaded table with a salaried and an hourly record, both with a pay
C1_Witness ==
    /\ cache.hit
    /\ \E i \in DOMAIN data :
          data[i].salary_hourly = "SALARY" /\ data[i].annual_pay = Num(50000500)
    /\ \E i \in DOMAIN data :
          data[i].salary_hourly = "HOURLY" /\ data[i].annual_pay = Num(26687500)

\* C6: within one process the body of get_data() runs at most once, and
\* every run of the script gets the table of that first run, whatever is on
\* disk by then.
C6_LoadedOnce ==
    /\ reads <= 1
    /\ cache.hit => /\ reads = 1
                    /\ data = first_load
                    /\ cache.value = first_load

\* a run that got the first table although the CSV on disk had changed
C6_Witness == stale /\ reads = 1 /\ data = first_load /\ ~select_all_depts

\* the number a sequence of decimal digit characters writes
RECURSIVE DecimalValue(_)
DecimalValue(ds) ==
    LET digit(c) == CHOOSE k \in 0..9 :
                       <<"0", "1", "2", "3", "4", "5", "6", "7", "8", "9">>[k + 1] = c
    IN  IF ds = <<>> THEN 0
        ELSE 10 * DecimalValue(SubSeq(ds, 1, Len(ds) - 1)) + digit(ds[Len(ds)])

\* C8: after a call of fetch_data that got an HTTP response: with status
\* 200 (and a JSON body) the result holds one row per JSON object with the
\* object's values and nothing is reported; with any other status exactly
\* one message "Failed to fetch data: <status code>" is rendered, the
\* result is the empty table and no exception leaves fetch_data.
C8_FetchOutcome ==
    response.status_code # 0 =>
        IF response.status_code = 200
        THEN response.body.is_json =>
                /\ ~escaped
                /\ st_error = <<>>
                /\ Len(fetched) = Len(response.body.value)
                /\ \A i \in DOMAIN fetched :
                      \A c \in DOMAIN response.body.value[i] :
                          fetched[i][c] = response.body.value[i][c]
        ELSE /\ ~escaped
             /\ fetched = <<>>
             /\ Len(st_error) = 1
             /\ Head(st_error[1]) = "Failed to fetch data: "
             /\ DecimalValue(Tail(st_error[1])) = response.status_code

\* a 404 answer: message with "404", empty table, nothing raised
C8_Witness ==
    /\ response.status_code = 404
    /\ st_error = << <<"Failed to fetch data: ", "4", "0", "4">> >>
    /\ fetched = <<>>
    /\ ~escaped

\* the rows of the loaded table that satisfy the predicate in effect
Satisfying ==
    {i \in DOMAIN data :
        /\ \E k \in DOMAIN departments : departments[k] = data[i].department
        /\ data[i].full_part_time \in employment_type
        /\ ~data[i].annual_pay.nan
        /\ min_salary * Scale <= data[i].annual_pay.val
        /\ data[i].annual_pay.val <= max_salary * Scale}

\* C2: the Filtered Record Set holds exactly the records of the loaded
\* table whose department is among the chosen departments, whose employment
\* type is among the chosen codes and whose annual_pay lies in [min, max],
\* both ends included; each such record once.
C2_FilterExact ==
    cache.hit =>
        /\ Range(filtered_data) = Satisfying
        /\ Len(filtered_data) = Cardinality(Satisfying)

\* one of two records is kept, its pay equal to the upper end of the range,
\* the other one dropped
C2_Witness ==
    /\ Len(data) = 2
    /\ Len(filtered_data) = 1
    /\ data[filtered_data[1]].annual_pay.val = max_salary * Scale
    /\ data[filtered_data[1]].annual_pay.val = min_salary * Scale

\* position of a text in Python's string order
Rank(t) == CHOOSE k \in DOMAIN StrOrder : StrOrder[k] = t

\* d lists every department of the loaded table once, in sorted order
IsFullSortedSet(d, tbl) ==
    /\ Range(d) = {tbl[i].department : i \in DOMAIN tbl}
    /\ \A i \in DOMAIN d : \A j \in DOMAIN d : i < j => Rank(d[i]) < Rank(d[j])

\* C5: whenever "Select All Departments" is checked the predicate's
\* department list is the full sorted distinct department set of the loaded
\* table, whatever the multiselect held before; and the run that follows
\* unchecking the box has the full set as well.
C5_SelectAll ==
    /\ [](cache.hit /\ select_all_depts => IsFullSortedSet(departments, data))
    /\ [][cache.hit /\ select_all_depts /\ ~select_all_depts'
            => IsFullSortedSet(departments', data')]_vars

\* the box is checked and the list is the full set {A, B}, although the
\* multiselect held only A when the box was checked
C5_Witness ==
    /\ cache.hit
    /\ select_all_depts
    /\ discarded = <<"A">>
    /\ departments = <<"A", "B">>

\* C7 as claimed: when a page that rendered without error is given a
\* predicate with no department or no employment type, the Filtered Record
\* Set is empty and the run completes without an exception.
C7_EmptySelectionRenders ==
    [][cache.hit /\ error = "none" /\ (departments' = <<>> \/ employment_type' = {})
          => filtered_data' = <<>> /\ error' = "none"]_vars

\* C10 as claimed: with the slider at its default range every loaded
\* record's annual_pay lies within [min_salary, max_salary].
C10_DefaultRangeKeepsAll ==
    cache.hit /\ min_salary = slider_min(data) /\ max_salary = slider_max(data) =>
        \A i \in DOMAIN data :
            /\ min_salary * Scale <= data[i].annual_pay.val
            /\ data[i].annual_pay.val <= max_salary * Scale


\* annual_pay (thousandths) of the k-th filtered record
FPay(k) == data[filtered_data[k]].annual_pay.val

\* positions of the filtered records of department d
InDept(d) == {k \in DOMAIN filtered_data : data[filtered_data[k]].department = d}

RECURSIVE SumPay(_)
SumPay(K) ==
    IF K = {} THEN 0
    ELSE LET k == CHOOSE x \in K : TRUE IN FPay(k) + SumPay(K \ {k})

Abs(x) == IF x < 0 THEN -x ELSE x

\* a (thousandths) is the amount n/d thousandths rounded to 2 decimals:
\* a whole number of cents at most half a cent away
IsRounded2(a, n, d) == a % 10 = 0 /\ Abs(a * d - n) <= 5 * d

\* p (tenths of a percent) is c / t * 100 rounded to 1 decimal
IsRoundedPct(p, c, t) == 2 * Abs(p * t - c * 1000) <= t

\* what C3 says of every aggregate row but min_salary and max_salary
AggRowsCountMeanShare ==
    /\ {dept_df[g].department : g \in DOMAIN dept_df}
          = {data[filtered_data[k]].department : k \in DOMAIN filtered_data}
    /\ \A g \in DOMAIN dept_df : \A h \in DOMAIN dept_df :
          dept_df[g].department = dept_df[h].department => g = h
    /\ \A g \in DOMAIN dept_df :
          LET r == dept_df[g]
              K == InDept(r.department)
          IN  /\ r.employee_count = Cardinality(K)
              /\ IsRounded2(r.avg_salary, SumPay(K), Cardinality(K))
              /\ IsRoundedPct(r.percentage, Cardinality(K), Len(filtered_data))

\* C3 as claimed: min_salary and max_salary are the smallest and largest
\* annual_pay of the department's filtered records.
C3_AggregatesAsClaimed ==
    cache.hit /\ filtered_data # <<>> =>
        /\ AggRowsCountMeanShare
        /\ \A g \in DOMAIN dept_df :
              LET K == InDept(dept_df[g].department)
              IN  /\ \E k \in K : dept_df[g].min_salary = FPay(k)
                  /\ \E k \in K : dept_df[g].max_salary = FPay(k)
                  /\ \A k \in K : /\ dept_df[g].min_salary <= FPay(k)
                                  /\ FPay(k) <= dept_df[g].max_salary

\* C3, amended: for a non-empty Filtered Record Set there is exactly one
\* aggregate row per department present; employee_count is the number of
\* the department's filtered records, avg_salary their mean rounded to 2
\* decimals, percentage employee_count / total * 100 rounded to 1 decimal,
\* and min_salary and max_salary are their smallest and largest annual_pay,
\* each rounded to 2 decimals.
C3_Aggregates ==
    cache.hit /\ filtered_data # <<>> =>
        /\ AggRowsCountMeanShare
        /\ \A g \in DOMAIN dept_df :
              LET K == InDept(dept_df[g].department)
              IN  /\ \E k \in K : /\ IsRounded2(dept_df[g].min_salary, FPay(k), 1)
                                  /\ \A j \in K : FPay(k) <= FPay(j)
                  /\ \E k \in K : /\ IsRounded2(dept_df[g].max_salary, FPay(k), 1)
                                  /\ \A j \in K : FPay(j) <= FPay(k)

\* A: pays 10, 20, 30 and B: pay 100 give A: 3, 20.00, 10, 30, 75.0 and
\* B: 1, 100.00, 100, 100, 25.0
C3_Witness ==
    /\ Len(filtered_data) = 4
    /\ dept_df =
         <<[department |-> "B", employee_count |-> 1, avg_salary |-> 100000,
            min_salary |-> 100000, max_salary |-> 100000, percentage |-> 250],
           [department |-> "A", employee_count |-> 3, avg_salary |-> 20000,
            min_salary |-> 10000, max_salary |-> 30000, percentage |-> 750]>>
    /\ {FPay(k) : k \in InDept("A")} = {10000, 20000, 30000}

\* the rows of the top earners table
TopRowSet == {top_n[k].row : k \in DOMAIN top_n}

RowPay(i) == data[i].annual_pay.val

\* C4: the top earners table holds min(N, |F|) distinct records of the
\* Filtered Record Set F, each paid at least as much as every record of F
\* outside the table, in descending order of annual_pay, with ranks
\* 1, 2, ..., k in row order.
C4_TopN ==
    cache.hit =>
        /\ Len(top_n) = IF top_n_selector < Len(filtered_data)
                        THEN top_n_selector ELSE Len(filtered_data)
        /\ Cardinality(TopRowSet) = Len(top_n)
        /\ TopRowSet \subseteq Range(filtered_data)
        /\ \A i \in TopRowSet : \A x \in Range(filtered_data) \ TopRowSet :
              RowPay(i) >= RowPay(x)
        /\ \A k \in DOMAIN top_n :
              /\ top_n[k].rank = k
              /\ k > 1 => RowPay(top_n[k - 1].row) >= RowPay(top_n[k].row)

\* pays 5, 50, 500, 5000, 50000 and N = 3 give 50000, 5000, 500 with ranks
\* 1, 2, 3
C4_Witness ==
    /\ top_n_selector = 3
    /\ Len(data) = 5
    /\ [i \in 1..5 |-> RowPay(i)]
          = <<5 * Scale, 50 * Scale, 500 * Scale, 5000 * Scale, 50000 * Scale>>
    /\ top_n = <<[row |-> 5, rank |-> 1], [row |-> 4, rank |-> 2],
                 [row |-> 3, rank |-> 3]>>

\* the bin width in dollars each key of the selectbox stands for
WidthOf(key) ==
    IF key = "1K" THEN 1000
    ELSE IF key = "5K" THEN 5000
    ELSE IF key = "10K" THEN 10000
    ELSE 20000

\* C9: for a non-empty Filtered Record Set with smallest pay m, largest pay
\* M and bin width w: min_value is the multiple of w with
\* min_value <= m < min_value + w (w * floor(m / w)), max_value the multiple
\* of w with max_value - w < M <= max_value (w * ceil(M / w)),
\* num_bins = (max_value - min_value) / w, and bin_edges are the
\* num_bins + 1 points min_value, min_value + w, ..., max_value; so every
\* filtered pay lies within [min_value, max_value].
C9_Bins ==
    cache.hit /\ filtered_data # <<>> =>
        LET w == WidthOf(bin_width_key)
            P == {FPay(k) : k \in DOMAIN filtered_data}
        IN  /\ error = "none"
            /\ min_value % w = 0
            /\ \E m \in P : /\ \A x \in P : m <= x
                            /\ min_value * Scale <= m
                            /\ m < (min_value + w) * Scale
            /\ max_value % w = 0
            /\ \E M \in P : /\ \A x \in P : x <= M
                            /\ (max_value - w) * Scale < M
                            /\ M <= max_value * Scale
            /\ num_bins * w = max_value - min_value
            /\ Len(bin_edges) = num_bins + 1
            /\ \A i \in DOMAIN bin_edges : bin_edges[i] = min_value + (i - 1) * w
            /\ bin_edges[Len(bin_edges)] = max_value
            /\ \A x \in P : min_value * Scale <= x /\ x <= max_value * Scale

\* pays from 23456 to 187654 with width 10000: 20000, 190000, 17 bins,
\* 18 edges
C9_Witness ==
    /\ bin_width_key = "10K"
    /\ {FPay(k) : k \in DOMAIN filtered_data} = {23456 * Scale, 187654 * Scale}
    /\ min_value = 20000
    /\ max_value = 190000
    /\ num_bins = 17
    /\ Len(bin_edges) = 18
    /\ bin_edges[2] = 30000

====
